---- MODULE Spec2Model ----
(***************************************************************************)
(* Scan lifecycle of reconPoint: ScanService.create_scan,                  *)
(* update_scan_status and abort_scan (web/services/scan_service.py), run   *)
(* by concurrent request workers against one database.  Every service call *)
(* is a database transaction (@transaction.atomic): its row locks          *)
(* (select_for_update) are held, and its writes are invisible to the other *)
(* workers, until the call returns or raises.  With it: the progress that   *)
(* get_scan_details reads from the ScanActivity rows, and the webhook       *)
(* engine (web/reconPoint/webhook_manager.py): subscriptions and delivery   *)
(* logs kept in the cache, send_webhook with its retry loop and signature,  *)
(* and the send_webhook_notification task that fans an event out.           *)
(***************************************************************************)
EXTENDS Integers, Sequences, FiniteSets, TLC

\* ------------------------------------------------------------------ bounds
\* Concurrent workers.
NumProcs == 2
\* Scans created in the lifecycle and concurrency specifications, and in the
\* specifications that study one operation in detail.
MaxScans == 2
MaxScansFew == 1
\* The last reading of the clock.
MaxTime == 1
\* Handles the executor hands out.
MaxHandles == 2
\* send_webhook calls made directly, and notification tasks triggered.
MaxSends == 2
MaxTasks == 1
\* Threads that deliver webhooks, and the deliveries that fill a delivery log
\* and overflow it.
NumSenders == 2
MaxLogged == 11
\* Rows of the ScanActivity table.
MaxActivities == 3

\* --------------------------------------------------------- program constants
PENDING == -1
FAILED == 0
RUNNING == 1
COMPLETED == 2
ABORTED == 3
ErrorMessageLimit == 300
\* WebhookManager.__init__
max_retries == 3
retry_delay == 5
\* recent_logs[-10:]
RecentLogs == 10
\* ScanActivity.status of a completed step.
ActivityCompleted == 2

\* ------------------------------------------------------------- value domains
\* Python's None, and a value that is not None.
None == <<>>
Some(x) == <<x>>

Procs == 1..NumProcs
\* Domain rows and EngineType rows of the database; the ids a caller may pass
\* include one that names no row.
Domains == {"d1", "d2"}
DomainIds == Domains \cup {"d9"}
Engines == {"e1"}
EngineIds == Engines \cup {"e9"}
Users == {"u1", "u2"}
\* EngineType.tasks of every EngineType row.
EngineTasks == [e \in Engines |-> <<"subdomain_discovery", "port_scan">>]
\* The steps the scan tasks report, and the ScanActivity status codes.
StepNames == {"subdomain_discovery", "port_scan"}
ActivityStatus == {0, 1, ActivityCompleted}
\* Every integer a caller may pass as status: the five codes and one that is none.
StatusArgs == {PENDING, FAILED, RUNNING, COMPLETED, ABORTED, 4}
\* A string is modelled by its content class: the character ch repeated len
\* times ("" is len = 0).
Str(c, n) == [ch |-> IF n = 0 THEN "" ELSE c, len |-> n]
MessageArgs ==
    {None, Some(Str("a", 0)), Some(Str("a", 1)), Some(Str("b", 1)),
     Some(Str("a", ErrorMessageLimit + 1))}

VARIABLES
    scans,                  \* ScanHistory table: scan id -> row
    domain_start_scan_date, \* Domain.start_scan_date of every Domain row
    domain_lock,            \* Domain rows locked by select_for_update
    scan_lock,              \* ScanHistory rows locked by select_for_update
    pc,                     \* where each worker is in its service call
    call,                   \* the arguments of each worker's call
    result,                 \* what each worker's last call returned or raised
    now,                    \* timezone.now()
    hist,                   \* per worker: observations of its current call
    activities,             \* ScanActivity table: the rows in insertion order
    subscriptions,          \* cache: webhook_subscriptions:{event} -> list
    delivery_log,           \* cache: webhook_log:{url}:{event} -> list
    task_queue,             \* celery: send_webhook_notification tasks waiting
    dw,                     \* the worker that runs the webhook deliveries
    sent,                   \* the POSTs and sleeps of its current send_webhook
    sg                      \* a signature and the last verification of it

\* The state of the webhook engine.
hook_vars == <<subscriptions, delivery_log, task_queue, dw, sent, sg>>
\* The state of the scan service.
scan_vars == <<scans, domain_start_scan_date, domain_lock, scan_lock, pc, call,
               result, now, hist, activities>>

vars == <<scans, domain_start_scan_date, domain_lock, scan_lock, pc, call,
          result, now, hist, activities, subscriptions, delivery_log,
          task_queue, dw, sent, sg>>

\* A row lock is the set of the transactions that hold it (none, or one).
Unlocked == {}

ScanIds == 1..Len(scans)
AllHandles == UNION {scans[i].celery_ids : i \in ScanIds}

\* ----------------------------------------------------------- pure operators
\* Python truthiness of an Optional[str].
Truthy(m) == m # None /\ m[1].len > 0

\* error_message[:300]
Truncate_Whole(m) == m

Truncate(m) == Some(Str(m[1].ch, IF m[1].len < ErrorMessageLimit
                                   THEN m[1].len ELSE ErrorMessageLimit))

\* status not in [-1, 0, 1, 2, 3]
ValidStatus(status) == status \in {PENDING, FAILED, RUNNING, COMPLETED, ABORTED}

\* scan_status__in=[-1, 1]
IsActive(status) == status \in {PENDING, RUNNING}

\* ScanHistory.objects.filter(domain=domain, scan_status__in=[-1, 1]).exists()
running_scans_FailedOrRunning(d) ==
    \E i \in ScanIds : scans[i].domain = d /\ scans[i].scan_status \in {FAILED, RUNNING}

running_scans(d) ==
    \E i \in ScanIds : scans[i].domain = d /\ IsActive(scans[i].scan_status)

\* status in [0, 2, 3] and not scan.stop_scan_date
SetsStopDate(status, stop) ==
    status \in {FAILED, COMPLETED, ABORTED} /\ stop = None

\* scan.scan_status not in [-1, 1]
CannotAbort_FailedOrRunning(status) == status \notin {FAILED, RUNNING}

CannotAbort(status) == status \notin {PENDING, RUNNING}

\* try: app.control.revoke(...) except Exception: logger.error(...).  Whether
\* the failures of the revoke requests for the handles `failed` leave the loop.
RevokeErrorEscapes_Raised(failed) == failed # {}

RevokeErrorEscapes(failed) == FALSE

\* The row ScanHistory.objects.create writes.  Of its fields the model keeps
\* those that create_scan, update_scan_status or abort_scan read or write
\* afterwards.
NewScan(d, e, u) ==
    [domain |-> d, scan_status |-> PENDING, stop_scan_date |-> None,
     aborted_by |-> None, error_message |-> None, celery_ids |-> {},
     tasks |-> EngineTasks[e]]

\* The row update_scan_status saves.
UpdatedScan(scan, status, msg) ==
    [scan EXCEPT
        !.scan_status = status,
        !.error_message = IF Truthy(msg) THEN Truncate(msg) ELSE @,
        !.stop_scan_date = IF SetsStopDate(status, @) THEN Some(now) ELSE @]

\* The row abort_scan saves.
AbortedScan(scan, u) ==
    [scan EXCEPT
        !.scan_status = ABORTED,
        !.stop_scan_date = Some(now),
        !.aborted_by = Some(u)]

\* ------------------------------------------------- pure operators: webhooks
\* class WebhookEvent
SCAN_STARTED == "scan.started"
SCAN_COMPLETED == "scan.completed"
SCAN_FAILED == "scan.failed"
WebhookEvent ==
    {SCAN_STARTED, SCAN_COMPLETED, SCAN_FAILED, "subdomain.discovered",
     "vulnerability.found", "target.added"}

\* A JSON value is a scalar or an object; the members of an object (a Python
\* dict) are in insertion order.
Scalar(x) == [type |-> "scalar", value |-> x]
Object(members) == [type |-> "object", members |-> members]

\* The keys of the model's objects in the order of Python's str comparison.
KeyOrder ==
    <<"data", "domain", "engine", "error", "event", "message", "scan_id",
      "test", "timestamp">>

\* sort_keys=True: the members of a dict ordered by key.
SortKeys(members) ==
    LET keys == {members[i][1] : i \in DOMAIN members}
        ordered == SelectSeq(KeyOrder, LAMBDA k : k \in keys)
        at(k) == CHOOSE i \in DOMAIN members : members[i][1] = k
    IN [i \in DOMAIN ordered |-> members[at(ordered[i])]]

\* json.dumps(v, sort_keys=...): the text, as the sequence of its tokens.
RECURSIVE json_dumps(_, _)
json_dumps(v, sort_keys) ==
    IF v.type = "scalar" THEN <<v.value>>
    ELSE LET m == IF sort_keys THEN SortKeys(v.members) ELSE v.members
             RECURSIVE Members(_)
             Members(i) ==
                 IF i > Len(m) THEN <<>>
                 ELSE <<m[i][1]>> \o json_dumps(m[i][2], sort_keys) \o Members(i + 1)
         IN <<"{">> \o Members(1) \o <<"}">>

\* str.encode('utf-8')
encode(text) == [utf8 |-> text]

\* datetime.isoformat()
isoformat(t) == ToString(t)

\* hmac.new(key, message, hashlib.sha256).hexdigest().  HMAC-SHA256 is modelled
\* as collision-free: the digest determines the key and the message.
hmac_sha256(key, message) == [key |-> key, message |-> message]

\* A signature string: an optional 'sha256=' prefix and a hex digest.
Digest(prefix, hexdigest) == [prefix |-> prefix, hexdigest |-> hexdigest]

\* _generate_signature(payload, secret)
generate_signature(payload, secret) ==
    Digest("sha256=", hmac_sha256(encode(secret), encode(json_dumps(payload, TRUE))))

\* if signature.startswith('sha256='): signature = signature[7:]
StripPrefix_Kept(signature) == signature

StripPrefix(signature) ==
    IF signature.prefix = "sha256=" THEN Digest("", signature.hexdigest)
    ELSE signature

\* verify_signature(payload, signature, secret); payload is a str.
verify_signature(payload, signature, secret) ==
    StripPrefix(signature) = Digest("", hmac_sha256(encode(secret), encode(payload)))

\* webhook_payload = {'event': ..., 'timestamp': ..., 'data': ...}
webhook_payload(event, payload, t) ==
    Object(<< <<"event", Scalar(event)>>, <<"timestamp", Scalar(isoformat(t))>>,
              <<"data", payload>> >>)

\* requests.post(url, json=webhook_payload, ...): the body is the dict dumped
\* in the order of its keys.
RequestBody(envelope) == encode(json_dumps(envelope, FALSE))

\* if secret:
Signs_Never(secret) == FALSE

Signs(secret) == secret # None /\ secret[1] # ""

\* response.status_code in [200, 201, 202, 204]
SuccessStatus_Only200(status_code) == status_code = 200

SuccessStatus(status_code) == status_code \in {200, 201, 202, 204}

\* What an endpoint does with a POST: it answers with a status code, or
\* requests.post raises.
Answers(status_code) == [raises |-> "", status_code |-> status_code]
Raises(exc) == [raises |-> exc, status_code |-> 0]

\* for attempt in range(self.max_retries): attempt is the last iteration.
LastAttempt(attempt) == attempt + 1 >= max_retries

\* if attempt < self.max_retries - 1: time.sleep(self.retry_delay * (attempt + 1))
\* The sleeps after the attempt whose outcome is response.
Backoff(attempt, response) ==
    IF response.raises = "RequestException" /\ attempt < max_retries - 1
    THEN <<[kind |-> "sleep", seconds |-> retry_delay * (attempt + 1)]>>
    ELSE <<>>

\* The log_entry of _log_webhook_delivery.
LogEntry(url, event, success, status_code, t) ==
    [url |-> url, event |-> event, success |-> success,
     status_code |-> status_code, timestamp |-> isoformat(t)]

\* recent_logs[-10:]
KeepRecent_All(logs) == logs

KeepRecent(logs) ==
    IF Len(logs) <= RecentLogs THEN logs
    ELSE SubSeq(logs, Len(logs) - RecentLogs + 1, Len(logs))

\* recent_logs.append(log_entry); recent_logs = recent_logs[-10:]
log_webhook_delivery_Dropped(recent_logs, log_entry) == recent_logs

log_webhook_delivery(recent_logs, log_entry) ==
    KeepRecent(Append(recent_logs, log_entry))

\* The dict add_subscription stores.
Subscription(url, events, secret, active, t) ==
    [id |-> [md5 |-> encode(url)], url |-> url, events |-> events,
     secret |-> secret, active |-> active, created_at |-> isoformat(t)]

\* if not any(sub['url'] == url for sub in subscriptions)
AlreadySubscribed_Never(subs, url) == FALSE

AlreadySubscribed(subs, url) == \E j \in DOMAIN subs : subs[j].url = url

\* The six events remove_subscription goes through when it is given none.
EveryEvent ==
    <<SCAN_STARTED, SCAN_COMPLETED, SCAN_FAILED, "subdomain.discovered",
      "vulnerability.found", "target.added">>

\* if event: events = [event] else: events = [the six events]
RemovedFrom_Every(event) == EveryEvent

RemovedFrom(event) ==
    IF event # None /\ event[1] # "" THEN <<event[1]>> ELSE EveryEvent

\* if async_send: send_webhook_notification.delay(event, payload)
Delays_Never(async_send) == FALSE

Delays(async_send) == async_send

\* except Exception as e: logger.error(...).  Whether a send_webhook that
\* raised ends the loop of send_webhook_notification.
DeliveryErrorEscapes_Raised(outcome) == outcome = "raised"

DeliveryErrorEscapes(outcome) == FALSE

\* for subscription in subscriptions: if not subscription.get('active', True):
\* continue.  The index of the first active subscription after i (0: none).
NextActive_Any(subs, i) == IF i < Len(subs) THEN i + 1 ELSE 0

NextActive(subs, i) ==
    LET later == {j \in DOMAIN subs : j > i /\ subs[j].active} IN
    IF later = {} THEN 0 ELSE CHOOSE j \in later : \A k \in later : j <= k

\* --------------------------------------------- pure operators: scan progress
\* len(scan.tasks) if scan.tasks else 0
total_tasks(scan) == Len(scan.tasks)

\* activities.filter(status=2).count() over scan.scanactivity_set
completed_tasks_LatestStatus(scan_id) ==
    Cardinality({i \in DOMAIN activities :
                    /\ activities[i].scan = scan_id
                    /\ activities[i].status = ActivityCompleted
                    /\ ~\E j \in DOMAIN activities :
                          /\ j > i
                          /\ activities[j].scan = scan_id
                          /\ activities[j].name = activities[i].name})

completed_tasks(scan_id) ==
    Cardinality({i \in DOMAIN activities :
                    activities[i].scan = scan_id /\ activities[i].status = ActivityCompleted})

\* round(completed_tasks / total_tasks * 100, 2) if total_tasks > 0 else 0, in
\* hundredths of a percent (to the nearest; no tie arises below 32 tasks).
percentage(completed, total) ==
    IF total > 0 THEN (completed * 10000 * 2 + total) \div (2 * total) ELSE 0

\* The 'progress' entry of the dict get_scan_details returns.
progress(scan_id) ==
    [total_tasks |-> total_tasks(scans[scan_id]),
     completed_tasks |-> completed_tasks(scan_id),
     percentage |-> percentage(completed_tasks(scan_id), total_tasks(scans[scan_id]))]

\* ------------------------------------------------------------------- state
NoCall == [op |-> "none"]
\* What a call returned or raised; scan is the id of the row it read or wrote
\* (0 when it reached none), requested and failed are the handles abort_scan
\* asked celery to revoke and those for which the request raised.
NoResult == [op |-> "none", outcome |-> "none", scan |-> 0,
             requested |-> {}, failed |-> {}]
Raised(op, exc, id) == [op |-> op, outcome |-> exc, scan |-> id,
                        requested |-> {}, failed |-> {}]
Returned(op, id) == [op |-> op, outcome |-> "ok", scan |-> id,
                     requested |-> {}, failed |-> {}]
NoTarget == "none"
NoHist == [overlap |-> {}, quiet |-> TRUE, target |-> NoTarget]

\* The threads that deliver webhooks: celery workers, and callers of
\* send_webhook or of trigger_webhook.
Senders == 1..NumSenders

\* The endpoints, and the events the model delivers.
Urls == {"http://a", "http://b"}
TEST_EVENT == "webhook.test"
CacheEvents == WebhookEvent \cup {TEST_EVENT}

\* The delivery worker between two pieces of work.  task is what it runs or
\* ran last ("send_webhook" called directly, or the celery task
\* "send_webhook_notification"); subs is the list the task read and i the
\* subscription it delivers to; attempt is the loop variable of send_webhook;
\* returned is what the last send_webhook returned ("True", "False") or that
\* it raised; attempted are the subscriptions of the task that were POSTed to.
IdleWorker ==
    [pc |-> "idle", task |-> "none", event |-> "", payload |-> Object(<<>>),
     subs |-> <<>>, i |-> 0, url |-> "", secret |-> None, attempt |-> 0,
     returned |-> "none", attempted |-> {}, context |-> "none",
     async_send |-> FALSE, recent_logs |-> <<>>, log_entry |-> None]

NoSignature == [stage |-> "none"]

Init ==
    /\ activities = <<>>
    /\ subscriptions = [e \in CacheEvents |-> <<>>]
    /\ delivery_log = [k \in Urls \X CacheEvents |-> <<>>]
    /\ task_queue = <<>>
    /\ dw = [w \in Senders |-> IdleWorker]
    /\ sent = [w \in Senders |-> <<>>]
    /\ sg = NoSignature
    /\ scans = <<>>
    /\ domain_start_scan_date = [d \in Domains |-> None]
    /\ domain_lock = [d \in Domains |-> Unlocked]
    /\ scan_lock = [i \in 1..MaxScans |-> Unlocked]
    /\ pc = [p \in Procs |-> "idle"]
    /\ call = [p \in Procs |-> NoCall]
    /\ result = [p \in Procs |-> NoResult]
    /\ now = 0
    /\ hist = [p \in Procs |-> NoHist]

\* The clock advances.
Tick ==
    /\ now < MaxTime
    /\ now' = now + 1
    /\ UNCHANGED <<scans, domain_start_scan_date, domain_lock, scan_lock, pc,
                   call, result, hist>>
    /\ UNCHANGED <<activities, hook_vars>>

InCreate(q) == pc[q] \in {"create_check", "create_insert"}

\* What a new create_scan call of worker p records: the workers whose
\* create_scan calls are in flight with it, and the domain it targets when it
\* names an existing domain and engine and the domain has no Pending or Running
\* scan.
Enter(p, target) ==
    hist' = [q \in Procs |->
        IF q = p
        THEN [overlap |-> {r \in Procs \ {p} : InCreate(r)}, quiet |-> TRUE,
              target |-> target]
        ELSE IF InCreate(q)
        THEN [hist[q] EXCEPT !.overlap = @ \cup {p}]
        ELSE hist[q]]

\* A new call of worker p that is no create_scan.
Forget(p) == hist' = [hist EXCEPT ![p] = NoHist]

\* A committed write of update_scan_status or abort_scan: the calls of the
\* other workers no longer ran among create_scan calls only.
Disturb(p) ==
    hist' = [q \in Procs |->
        IF q # p /\ hist[q] # NoHist THEN [hist[q] EXCEPT !.quiet = FALSE]
        ELSE hist[q]]

Finish(p, res) ==
    /\ pc' = [pc EXCEPT ![p] = "idle"]
    /\ call' = [call EXCEPT ![p] = NoCall]
    /\ result' = [result EXCEPT ![p] = res]

\* select_for_update(): the row is locked by another transaction.
RowLocked_Unlocked(holders, p) == FALSE

RowLocked(holders, p) == holders \ {p} # {}

\* ------------------------------------------------------------- create_scan
\* A worker enters create_scan(domain_id, scan_type_id, initiated_by_user).
create_scan_call(p, d, e, u, cap) ==
    /\ pc[p] = "idle"
    /\ Len(scans) + Cardinality({q \in Procs : InCreate(q)}) < cap
    /\ pc' = [pc EXCEPT ![p] = "create_check"]
    /\ call' = [call EXCEPT ![p] =
                  [op |-> "create", domain_id |-> d, scan_type_id |-> e, user |-> u]]
    /\ result' = [result EXCEPT ![p] = NoResult]
    /\ Enter(p, IF d \in Domains /\ e \in Engines /\ ~running_scans(d)
                 THEN d ELSE NoTarget)
    /\ UNCHANGED <<scans, domain_start_scan_date, domain_lock, scan_lock, now>>
    /\ UNCHANGED <<activities, hook_vars>>

\* Lines 49-70: lock the Domain row, look the engine up, look for a Pending or
\* Running scan of the domain.  A raise rolls the transaction back and unlocks.
create_scan_check_TouchesDomain(p) ==
    /\ pc[p] = "create_check"
    /\ domain_start_scan_date' =
          [d \in Domains |-> IF d = call[p].domain_id THEN Some(now + 1)
                             ELSE domain_start_scan_date[d]]
    /\ Finish(p, Raised("create", "ValidationException", 0))
    /\ UNCHANGED <<scans, domain_lock, scan_lock, now, hist>>
    /\ UNCHANGED <<activities, hook_vars>>

create_scan_check(p) ==
    /\ pc[p] = "create_check"
    /\ LET d == call[p].domain_id IN
       IF d \notin Domains
       THEN /\ Finish(p, Raised("create", "ResourceNotFoundException", 0))
            /\ UNCHANGED domain_lock
       ELSE /\ ~RowLocked(domain_lock[d], p)
            /\ IF call[p].scan_type_id \notin Engines
               THEN /\ Finish(p, Raised("create", "ResourceNotFoundException", 0))
                    /\ UNCHANGED domain_lock
               ELSE IF running_scans(d)
               THEN /\ Finish(p, Raised("create", "ValidationException", 0))
                    /\ UNCHANGED domain_lock
               ELSE /\ domain_lock' = [domain_lock EXCEPT ![d] = @ \cup {p}]
                    /\ pc' = [pc EXCEPT ![p] = "create_insert"]
                    /\ UNCHANGED <<call, result>>
    /\ UNCHANGED <<scans, domain_start_scan_date, scan_lock, now, hist>>
    /\ UNCHANGED <<activities, hook_vars>>

\* Lines 72-94: insert the scan, touch the domain, commit.
create_scan_insert(p) ==
    /\ pc[p] = "create_insert"
    /\ LET d == call[p].domain_id IN
       /\ scans' = Append(scans, NewScan(d, call[p].scan_type_id, call[p].user))
       /\ domain_start_scan_date' = [domain_start_scan_date EXCEPT ![d] = Some(now)]
       /\ domain_lock' = [domain_lock EXCEPT ![d] = @ \ {p}]
    /\ Finish(p, Returned("create", Len(scans) + 1))
    /\ UNCHANGED <<scan_lock, now, hist>>
    /\ UNCHANGED <<activities, hook_vars>>

\* ------------------------------------------------------ update_scan_status
\* A worker (or the executor's completion callback) enters
\* update_scan_status(scan_id, status, error_message).
update_scan_status_call(p, id, status, msg) ==
    /\ pc[p] = "idle"
    /\ pc' = [pc EXCEPT ![p] = "update_lock"]
    /\ call' = [call EXCEPT ![p] =
                  [op |-> "update", scan_id |-> id, status |-> status,
                   error_message |-> msg, scan |-> None]]
    /\ result' = [result EXCEPT ![p] = NoResult]
    /\ Forget(p)
    /\ UNCHANGED <<scans, domain_start_scan_date, domain_lock, scan_lock, now>>
    /\ UNCHANGED <<activities, hook_vars>>

\* Lines 214-222: validate the status code, lock the ScanHistory row and read
\* it.
update_scan_status_lock(p) ==
    /\ pc[p] = "update_lock"
    /\ LET id == call[p].scan_id IN
       IF ~ValidStatus(call[p].status)
       THEN /\ Finish(p, Raised("update", "ValidationException", 0))
            /\ UNCHANGED scan_lock
       ELSE IF id \notin ScanIds
       THEN /\ Finish(p, Raised("update", "ResourceNotFoundException", 0))
            /\ UNCHANGED scan_lock
       ELSE /\ ~RowLocked(scan_lock[id], p)
            /\ scan_lock' = [scan_lock EXCEPT ![id] = @ \cup {p}]
            /\ pc' = [pc EXCEPT ![p] = "update_save"]
            /\ call' = [call EXCEPT ![p].scan = Some(scans[id])]
            /\ UNCHANGED result
    /\ UNCHANGED <<scans, domain_start_scan_date, domain_lock, now, hist>>
    /\ UNCHANGED <<activities, hook_vars>>

\* Lines 224-237: write the status, the message and the stop date, commit.
update_scan_status_save(p) ==
    /\ pc[p] = "update_save"
    /\ LET id == call[p].scan_id IN
       /\ scans' = [scans EXCEPT ![id] =
                       UpdatedScan(call[p].scan[1], call[p].status, call[p].error_message)]
       /\ scan_lock' = [scan_lock EXCEPT ![id] = @ \ {p}]
       /\ Finish(p, Returned("update", id))
    /\ Disturb(p)
    /\ UNCHANGED <<domain_start_scan_date, domain_lock, now>>
    /\ UNCHANGED <<activities, hook_vars>>

\* ---------------------------------------------------------------- abort_scan
\* A worker enters abort_scan(scan_id, user).
abort_scan_call(p, id, u) ==
    /\ pc[p] = "idle"
    /\ pc' = [pc EXCEPT ![p] = "abort_lock"]
    /\ call' = [call EXCEPT ![p] =
                  [op |-> "abort", scan_id |-> id, user |-> u, scan |-> None]]
    /\ result' = [result EXCEPT ![p] = NoResult]
    /\ Forget(p)
    /\ UNCHANGED <<scans, domain_start_scan_date, domain_lock, scan_lock, now>>
    /\ UNCHANGED <<activities, hook_vars>>

\* Lines 256-259: lock the ScanHistory row and read it.
abort_scan_lock(p) ==
    /\ pc[p] = "abort_lock"
    /\ LET id == call[p].scan_id IN
       IF id \notin ScanIds
       THEN /\ Finish(p, Raised("abort", "ResourceNotFoundException", 0))
            /\ UNCHANGED scan_lock
       ELSE /\ ~RowLocked(scan_lock[id], p)
            /\ scan_lock' = [scan_lock EXCEPT ![id] = @ \cup {p}]
            /\ pc' = [pc EXCEPT ![p] = "abort_save"]
            /\ call' = [call EXCEPT ![p].scan = Some(scans[id])]
            /\ UNCHANGED result
    /\ UNCHANGED <<scans, domain_start_scan_date, domain_lock, now, hist>>
    /\ UNCHANGED <<activities, hook_vars>>

\* Lines 261-284: refuse a scan that is not Pending or Running; otherwise ask
\* celery to revoke every handle (any of the requests may raise, which is
\* logged), write Aborted, the stop date and the user, commit.
abort_scan_save(p) ==
    /\ pc[p] = "abort_save"
    /\ LET id == call[p].scan_id
           scan == call[p].scan[1]
       IN
       /\ scan_lock' = [scan_lock EXCEPT ![id] = @ \ {p}]
       /\ IF CannotAbort(scan.scan_status)
          THEN /\ Finish(p, Raised("abort", "ValidationException", id))
               /\ UNCHANGED <<scans, hist>>
          ELSE \E failed \in SUBSET scan.celery_ids :
                 IF RevokeErrorEscapes(failed)
                 THEN /\ Finish(p, [Raised("abort", "Exception", id) EXCEPT
                                       !.requested = scan.celery_ids,
                                       !.failed = failed])
                      /\ UNCHANGED <<scans, hist>>
                 ELSE /\ Finish(p, [Returned("abort", id) EXCEPT
                                       !.requested = scan.celery_ids,
                                       !.failed = failed])
                      /\ scans' = [scans EXCEPT ![id] = AbortedScan(scan, call[p].user)]
                      /\ Disturb(p)
    /\ UNCHANGED <<domain_start_scan_date, domain_lock, now>>
    /\ UNCHANGED <<activities, hook_vars>>

\* ---------------------------------------------------------- get_scan_details
\* A worker calls get_scan_details(scan_id): it reads the scan and its
\* activities, and returns the details or raises.
get_scan_details(p, id) ==
    /\ pc[p] = "idle"
    /\ result' = [result EXCEPT ![p] =
          IF id \notin ScanIds THEN Raised("details", "ResourceNotFoundException", 0)
          ELSE [op |-> "details", outcome |-> "ok", scan |-> id, requested |-> {},
                failed |-> {}, progress |-> progress(id)]]
    /\ Forget(p)
    /\ UNCHANGED <<scans, domain_start_scan_date, domain_lock, scan_lock, pc, call, now>>
    /\ UNCHANGED <<activities, hook_vars>>

\* ------------------------------------------------------- pre-flight checks
\* Domain.get_running_scans(): scan_status__in=[0, 1]
get_running_scans(d) ==
    {i \in ScanIds : scans[i].domain = d /\ scans[i].scan_status \in {0, 1}}

\* Domain.has_running_scan(): self.get_running_scans().exists()
has_running_scan(d) == get_running_scans(d) # {}

\* ScanHistory.is_running / is_completed / is_failed / is_aborted
is_running(scan) == scan.scan_status \in {0, 1}
is_completed(scan) == scan.scan_status = 2
is_failed(scan) == scan.scan_status = 3
is_aborted(scan) == scan.scan_status = 4

\* What a check returns: (is_valid, error_message).
Checked(op, id, is_valid, error) ==
    [op |-> op, outcome |-> "ok", scan |-> id, requested |-> {}, failed |-> {},
     is_valid |-> is_valid, error |-> error]

\* A worker calls ScanValidationService.validate_scan_start(domain_id,
\* scan_type_id, user).
validate_scan_start(p, d, e) ==
    /\ pc[p] = "idle"
    /\ result' = [result EXCEPT ![p] =
          IF d \notin Domains
          THEN Checked("validate_scan_start", 0, FALSE, Some("Domain not found"))
          ELSE IF e \notin Engines
          THEN Checked("validate_scan_start", 0, FALSE, Some("Scan type not found"))
          ELSE IF Cardinality({i \in ScanIds : scans[i].domain = d
                                               /\ scans[i].scan_status \in {0, 1}}) > 0
          THEN Checked("validate_scan_start", 0, FALSE,
                       Some("There is already a running scan"))
          ELSE Checked("validate_scan_start", 0, TRUE, None)]
    /\ call' = [call EXCEPT ![p] = [op |-> "validate_scan_start", domain_id |-> d,
                                    scan_type_id |-> e]]
    /\ Forget(p)
    /\ UNCHANGED <<scans, domain_start_scan_date, domain_lock, scan_lock, pc, now>>
    /\ UNCHANGED <<activities, hook_vars>>

\* A worker calls domain.has_running_scan() on the Domain d.
domain_has_running_scan(p, d) ==
    /\ pc[p] = "idle"
    /\ d \in Domains
    /\ result' = [result EXCEPT ![p] =
          [op |-> "has_running_scan", outcome |-> "ok", scan |-> 0, requested |-> {},
           failed |-> {}, returns |-> has_running_scan(d)]]
    /\ call' = [call EXCEPT ![p] = [op |-> "has_running_scan", domain_id |-> d]]
    /\ Forget(p)
    /\ UNCHANGED <<scans, domain_start_scan_date, domain_lock, scan_lock, pc, now>>
    /\ UNCHANGED <<activities, hook_vars>>

\* A worker calls ScanValidationService.validate_scan_stop(scan_id, user).
validate_scan_stop(p, id) ==
    /\ pc[p] = "idle"
    /\ result' = [result EXCEPT ![p] =
          IF id \notin ScanIds
          THEN Checked("validate_scan_stop", 0, FALSE, Some("Scan not found"))
          ELSE IF scans[id].scan_status \notin {0, 1}
          THEN Checked("validate_scan_stop", id, FALSE, Some("Scan is not running"))
          ELSE Checked("validate_scan_stop", id, TRUE, None)]
    /\ call' = [call EXCEPT ![p] = [op |-> "validate_scan_stop", scan_id |-> id]]
    /\ Forget(p)
    /\ UNCHANGED <<scans, domain_start_scan_date, domain_lock, scan_lock, pc, now>>
    /\ UNCHANGED <<activities, hook_vars>>

\* A worker reads the scan id and calls its four status methods.
scan_status_methods(p, id) ==
    /\ pc[p] = "idle"
    /\ id \in ScanIds
    /\ result' = [result EXCEPT ![p] =
          [op |-> "status_methods", outcome |-> "ok", scan |-> id, requested |-> {},
           failed |-> {}, is_running |-> is_running(scans[id]),
           is_completed |-> is_completed(scans[id]),
           is_failed |-> is_failed(scans[id]),
           is_aborted |-> is_aborted(scans[id])]]
    /\ call' = [call EXCEPT ![p] = [op |-> "status_methods", scan_id |-> id]]
    /\ Forget(p)
    /\ UNCHANGED <<scans, domain_start_scan_date, domain_lock, scan_lock, pc, now>>
    /\ UNCHANGED <<activities, hook_vars>>

\* ------------------------------------------------------------ activity ledger
\* A task of the scan id reports a step: a ScanActivity row is inserted.
append_activity(id, name, status) ==
    /\ id \in ScanIds
    /\ Len(activities) < MaxActivities
    /\ activities' = Append(activities,
                            [scan |-> id, name |-> name, status |-> status, time |-> now])
    /\ UNCHANGED <<scans, domain_start_scan_date, domain_lock, scan_lock, pc, call,
                   result, now, hist>>
    /\ UNCHANGED hook_vars

\* ------------------------------------------------------------ task executor
\* The executor accepts a unit of work of a Pending or Running scan and its
\* handle is added to the scan's celery_ids.
executor_submit(id) ==
    /\ id \in ScanIds
    /\ IsActive(scans[id].scan_status)
    /\ scan_lock[id] = Unlocked
    /\ Cardinality(AllHandles) < MaxHandles
    /\ scans' = [scans EXCEPT ![id].celery_ids = @ \cup {Cardinality(AllHandles) + 1}]
    /\ UNCHANGED <<domain_start_scan_date, domain_lock, scan_lock, pc, call,
                   result, now, hist>>
    /\ UNCHANGED <<activities, hook_vars>>

\* -------------------------------------------------------------- send_webhook
\* Deliveries the engine has logged or has in hand.
Deliveries ==
    LET keys == Urls \X CacheEvents
        RECURSIVE Logged(_)
        Logged(K) == IF K = {} THEN 0
                     ELSE LET k == CHOOSE x \in K : TRUE
                          IN Len(delivery_log[k]) + Logged(K \ {k})
    IN Logged(keys) + Cardinality({w \in Senders : dw[w].pc # "idle"})

\* Worker w begins send_webhook(url, event, payload, secret) for the
\* subscription i of the list subs its task read.
BeginSend(w, task, event, payload, subs, i, url, secret, attempted, context, async_send) ==
    /\ dw' = [dw EXCEPT ![w] =
                [IdleWorker EXCEPT !.pc = "post", !.task = task, !.event = event,
                                   !.payload = payload, !.subs = subs, !.i = i,
                                   !.url = url, !.secret = secret,
                                   !.attempted = attempted, !.context = context,
                                   !.async_send = async_send]]
    /\ sent' = [sent EXCEPT ![w] = <<>>]

\* A caller (WebhookTestHelper.test_webhook, or any other) calls
\* send_webhook(url, event, payload, secret); at most cap deliveries are made.
send_webhook_call(w, url, event, payload, secret, cap) ==
    /\ dw[w].pc = "idle"
    /\ Deliveries < cap
    /\ BeginSend(w, "send_webhook", event, payload, <<>>, 0, url, secret, {}, "caller", FALSE)
    /\ UNCHANGED <<subscriptions, delivery_log, task_queue, sg>>
    /\ UNCHANGED scan_vars

\* The request of the current send_webhook of w: lines 59-79.
Request(w, response) ==
    LET envelope == webhook_payload(dw[w].event, dw[w].payload, now) IN
    [kind |-> "post", url |-> dw[w].url, body |-> RequestBody(envelope),
     signature |-> IF Signs(dw[w].secret)
                   THEN Some(generate_signature(envelope, dw[w].secret[1]))
                   ELSE None,
     response |-> response]

\* send_webhook of w is over, having returned "True" or "False" or having
\* raised: the caller has its result, or send_webhook_notification goes on
\* with the next active subscription.
EndSend(w, outcome) ==
    LET attempted == dw[w].attempted \cup {dw[w].i}
        next == NextActive(dw[w].subs, dw[w].i)
    IN
    IF dw[w].task = "send_webhook" \/ next = 0 \/ DeliveryErrorEscapes(outcome)
    THEN dw' = [dw EXCEPT ![w].pc = "idle", ![w].returned = outcome,
                          ![w].attempted = attempted, ![w].attempt = 0]
    ELSE dw' = [dw EXCEPT ![w].pc = "post", ![w].i = next,
                          ![w].url = dw[w].subs[next].url,
                          ![w].secret = dw[w].subs[next].secret, ![w].attempt = 0,
                          ![w].returned = outcome, ![w].attempted = attempted]

\* _log_webhook_delivery(url, event, success, status_code) begins: the entry
\* is built and the recent deliveries are read from the cache (lines 171-181).
BeginLog(w, success, status_code) ==
    dw' = [dw EXCEPT ![w].pc = "log",
                     ![w].log_entry = Some(LogEntry(dw[w].url, dw[w].event, success,
                                                    status_code, now)),
                     ![w].recent_logs = delivery_log[<<dw[w].url, dw[w].event>>]]

\* One iteration of the loop of send_webhook (lines 82-105): POST, then log
\* the delivery on a success status, go on after any other status, sleep and
\* go on after a RequestException; any other exception leaves send_webhook.
\* After the last iteration the failure is logged (line 108).  The step that
\* leads to _log_webhook_delivery includes its read of the cache.
send_webhook_attempt(w, response) ==
    /\ dw[w].pc = "post"
    /\ LET posted == Append(IF dw[w].attempt = 0 THEN <<>> ELSE sent[w],
                            Request(w, response))
       IN
       IF response.raises = "" /\ SuccessStatus(response.status_code)
       THEN /\ sent' = [sent EXCEPT ![w] = posted]
            /\ BeginLog(w, TRUE, Some(response.status_code))
       ELSE IF response.raises \notin {"", "RequestException"}
       THEN /\ sent' = [sent EXCEPT ![w] = posted]
            /\ EndSend(w, "raised")
       ELSE /\ sent' = [sent EXCEPT ![w] = posted \o Backoff(dw[w].attempt, response)]
            /\ IF LastAttempt(dw[w].attempt)
               THEN BeginLog(w, FALSE, None)
               ELSE dw' = [dw EXCEPT ![w].attempt = @ + 1]
    /\ UNCHANGED <<subscriptions, delivery_log, task_queue, sg>>
    /\ UNCHANGED scan_vars

\* The end of _log_webhook_delivery (lines 182-186): the entry is appended to
\* the list that was read, the list is cut and written to the cache; then
\* send_webhook returns True or False (lines 94, 109).
send_webhook_log(w) ==
    /\ dw[w].pc = "log"
    /\ delivery_log' = [delivery_log EXCEPT ![<<dw[w].url, dw[w].event>>] =
                           log_webhook_delivery(dw[w].recent_logs, dw[w].log_entry[1])]
    /\ EndSend(w, IF dw[w].log_entry[1].success THEN "True" ELSE "False")
    /\ UNCHANGED <<subscriptions, task_queue, sent, sg>>
    /\ UNCHANGED scan_vars

\* ------------------------------------------------------ WebhookSubscription
\* get_subscriptions(event)
get_subscriptions(event) == subscriptions[event]

\* What add_subscription and remove_subscription return.
Registered(op, subscription) ==
    [op |-> op, outcome |-> "ok", scan |-> 0, requested |-> {}, failed |-> {},
     subscription |-> subscription]

\* A worker enters add_subscription(url, events, secret, active) and builds
\* the subscription (lines 227-234).
add_subscription_call(p, url, events, secret, active) ==
    /\ pc[p] = "idle"
    /\ LET subscription == Subscription(url, events, secret, active, now) IN
       IF events = <<>>
       THEN /\ Finish(p, Registered("add_subscription", Some(subscription)))
       ELSE /\ pc' = [pc EXCEPT ![p] = "add_get"]
            /\ call' = [call EXCEPT ![p] =
                          [op |-> "add_subscription", url |-> url, events |-> events,
                           subscription |-> subscription, k |-> 1,
                           subscriptions |-> <<>>]]
            /\ result' = [result EXCEPT ![p] = NoResult]
    /\ Forget(p)
    /\ UNCHANGED <<scans, domain_start_scan_date, domain_lock, scan_lock, now,
                   activities, subscriptions, delivery_log, task_queue, dw, sent, sg>>

\* The call of p has dealt with the event k of its list: it goes on with the
\* next event, or returns.
NextEvent(p, op, returns) ==
    IF call[p].k < Len(call[p].events)
    THEN /\ pc' = [pc EXCEPT ![p] = IF op = "add_subscription" THEN "add_get"
                                    ELSE "remove_get"]
         /\ call' = [call EXCEPT ![p].k = @ + 1, ![p].subscriptions = <<>>]
         /\ UNCHANGED result
    ELSE Finish(p, Registered(op, returns))

\* Lines 238-242: the list of the event is read from the cache; when it has
\* an entry for the url the event is done.
add_subscription_get(p) ==
    /\ pc[p] = "add_get"
    /\ LET read == get_subscriptions(call[p].events[call[p].k]) IN
       IF AlreadySubscribed(read, call[p].url)
       THEN NextEvent(p, "add_subscription", Some(call[p].subscription))
       ELSE /\ pc' = [pc EXCEPT ![p] = "add_set"]
            /\ call' = [call EXCEPT ![p].subscriptions = read]
            /\ UNCHANGED result
    /\ UNCHANGED <<scans, domain_start_scan_date, domain_lock, scan_lock, now, hist,
                   activities, subscriptions, delivery_log, task_queue, dw, sent, sg>>

\* Lines 243-245: the subscription is appended to the list that was read and
\* the list is written to the cache.
add_subscription_set(p) ==
    /\ pc[p] = "add_set"
    /\ subscriptions' = [subscriptions EXCEPT ![call[p].events[call[p].k]] =
                            Append(call[p].subscriptions, call[p].subscription)]
    /\ NextEvent(p, "add_subscription", Some(call[p].subscription))
    /\ UNCHANGED <<scans, domain_start_scan_date, domain_lock, scan_lock, now, hist,
                   activities, delivery_log, task_queue, dw, sent, sg>>

\* A worker enters remove_subscription(url, event); event is None or the name
\* of an event (lines 258-270).
remove_subscription_call(p, url, event) ==
    /\ pc[p] = "idle"
    /\ pc' = [pc EXCEPT ![p] = "remove_get"]
    /\ call' = [call EXCEPT ![p] =
                  [op |-> "remove_subscription", url |-> url, event |-> event,
                   events |-> RemovedFrom(event), k |-> 1, subscriptions |-> <<>>]]
    /\ result' = [result EXCEPT ![p] = NoResult]
    /\ Forget(p)
    /\ UNCHANGED <<scans, domain_start_scan_date, domain_lock, scan_lock, now,
                   activities, subscriptions, delivery_log, task_queue, dw, sent, sg>>

\* Lines 273-274: the list of the event is read from the cache.
remove_subscription_get(p) ==
    /\ pc[p] = "remove_get"
    /\ pc' = [pc EXCEPT ![p] = "remove_set"]
    /\ call' = [call EXCEPT ![p].subscriptions = get_subscriptions(call[p].events[call[p].k])]
    /\ UNCHANGED <<scans, domain_start_scan_date, domain_lock, scan_lock, now, hist,
                   result, activities, subscriptions, delivery_log, task_queue, dw,
                   sent, sg>>

\* Lines 274-275: the entries of the url are dropped from the list that was
\* read and the list is written to the cache.
remove_subscription_set(p) ==
    /\ pc[p] = "remove_set"
    /\ subscriptions' = [subscriptions EXCEPT ![call[p].events[call[p].k]] =
                            SelectSeq(call[p].subscriptions,
                                      LAMBDA sub : sub.url # call[p].url)]
    /\ NextEvent(p, "remove_subscription", None)
    /\ UNCHANGED <<scans, domain_start_scan_date, domain_lock, scan_lock, now, hist,
                   activities, delivery_log, task_queue, dw, sent, sg>>

\* ------------------------------------------------ send_webhook_notification
\* send_webhook_notification(event, payload) begins in worker w: it reads the
\* subscriptions of the event and delivers to the first active one.  context
\* is who runs it (a celery worker, or the caller of trigger_webhook) and
\* async_send what trigger_webhook was asked.
BeginNotification(w, event, payload, context, async_send) ==
    LET subs == get_subscriptions(event)
        first == NextActive(subs, 0)
    IN
    IF first = 0
    THEN /\ dw' = [dw EXCEPT ![w] =
                     [IdleWorker EXCEPT !.task = "send_webhook_notification",
                                        !.event = event, !.payload = payload,
                                        !.subs = subs, !.context = context,
                                        !.async_send = async_send]]
         /\ sent' = [sent EXCEPT ![w] = <<>>]
    ELSE BeginSend(w, "send_webhook_notification", event, payload, subs, first,
                   subs[first].url, subs[first].secret, {}, context, async_send)

\* trigger_webhook(event, payload, async_send) called in thread w:
\* send_webhook_notification is queued (.delay) or run by the caller.
trigger_webhook(w, event, payload, async_send, cap) ==
    /\ dw[w].pc = "idle"
    /\ Deliveries + Len(task_queue) < cap
    /\ IF Delays(async_send)
       THEN /\ task_queue' = Append(task_queue,
                                    [event |-> event, payload |-> payload,
                                     async_send |-> async_send])
            /\ UNCHANGED <<dw, sent>>
       ELSE /\ BeginNotification(w, event, payload, "caller", async_send)
            /\ UNCHANGED task_queue
    /\ UNCHANGED <<subscriptions, delivery_log, sg>>
    /\ UNCHANGED scan_vars

\* The celery worker w takes the next send_webhook_notification task.
send_webhook_notification(w) ==
    /\ dw[w].pc = "idle"
    /\ task_queue # <<>>
    /\ BeginNotification(w, Head(task_queue).event, Head(task_queue).payload,
                         "celery", Head(task_queue).async_send)
    /\ task_queue' = Tail(task_queue)
    /\ UNCHANGED <<subscriptions, delivery_log, sg>>
    /\ UNCHANGED scan_vars

\* ---------------------------------------------------------------- signatures
\* A sender signs the dict payload with secret: _generate_signature.
sign(payload, secret) ==
    /\ sg' = [stage |-> "signed", payload |-> payload, secret |-> secret,
              signature |-> generate_signature(payload, secret)]
    /\ UNCHANGED <<subscriptions, delivery_log, task_queue, dw, sent>>
    /\ UNCHANGED scan_vars

\* A receiver verifies the text it holds against the signature, passed whole
\* or without its prefix, and the secret: verify_signature.
verify(text, whole) ==
    /\ sg.stage = "signed"
    /\ LET signature == IF whole THEN sg.signature
                        ELSE Digest("", sg.signature.hexdigest)
       IN sg' = [stage |-> "verified", payload |-> sg.payload, secret |-> sg.secret,
                 signature |-> signature, text |-> text,
                 verdict |-> verify_signature(text, signature, sg.secret)]
    /\ UNCHANGED <<subscriptions, delivery_log, task_queue, dw, sent>>
    /\ UNCHANGED scan_vars

\* --------------------------------------------------------------------- spec
\* The steps of the workers W, with the arguments of their calls drawn from the
\* domain ids D, the engine ids E, the users U, the scan ids I, the status
\* codes S and the messages M; at most cap scans are created.
CreateSteps(W, D, E, U, cap) ==
    \/ \E p \in W, d \in D, e \in E, u \in U : create_scan_call(p, d, e, u, cap)
    \/ \E p \in W : create_scan_check(p)
    \/ \E p \in W : create_scan_insert(p)

UpdateSteps(W, I, S, M) ==
    \/ \E p \in W, id \in I, status \in S, msg \in M :
          update_scan_status_call(p, id, status, msg)
    \/ \E p \in W : update_scan_status_lock(p)
    \/ \E p \in W : update_scan_status_save(p)

AbortSteps(W, I, U) ==
    \/ \E p \in W, id \in I, u \in U : abort_scan_call(p, id, u)
    \/ \E p \in W : abort_scan_lock(p)
    \/ \E p \in W : abort_scan_save(p)

ExecutorSteps == \E id \in 1..MaxScans : executor_submit(id)

AnyScanId == 1..(MaxScans + 1)

\* The lifecycle: one worker, every domain, engine and scan id, every status
\* code.
Next ==
    \/ CreateSteps({1}, DomainIds, EngineIds, {"u1"}, MaxScans)
    \/ UpdateSteps({1}, AnyScanId, StatusArgs, {None})
    \/ AbortSteps({1}, AnyScanId, {"u1"})

Spec == Init /\ [][Next]_vars

\* The lifecycle and the clock.
NextClock ==
    \/ Tick
    \/ Next

SpecClock == Init /\ [][NextClock]_vars

\* Abort and the executor: one worker, the scans of one domain with their
\* handles, every user.
NextAbort ==
    \/ CreateSteps({1}, {"d1"}, Engines, {"u1"}, MaxScansFew)
    \/ UpdateSteps({1}, 1..MaxScansFew, StatusArgs \ {4}, {None})
    \/ AbortSteps({1}, 1..(MaxScansFew + 1), Users)
    \/ ExecutorSteps

SpecAbort == Init /\ [][NextAbort]_vars

\* Error messages: one worker, the scans of one domain, every message.
NextMessages ==
    \/ CreateSteps({1}, {"d1"}, Engines, {"u1"}, MaxScansFew)
    \/ UpdateSteps({1}, 1..MaxScansFew, StatusArgs \ {4}, MessageArgs)

SpecMessages == Init /\ [][NextMessages]_vars

\* Concurrent workers, every operation.
NextConcurrent ==
    \/ CreateSteps(Procs, Domains, Engines, {"u1"}, MaxScans)
    \/ UpdateSteps(Procs, 1..MaxScans, StatusArgs \ {4}, {None})
    \/ AbortSteps(Procs, 1..MaxScans, {"u1"})

SpecConcurrent == Init /\ [][NextConcurrent]_vars

\* Concurrent create_scan calls, among executor callbacks that complete scans.
NextCreateRace ==
    \/ CreateSteps(Procs, Domains, Engines, {"u1"}, MaxScans)
    \/ UpdateSteps(Procs, 1..MaxScans, {COMPLETED}, {None})

SpecCreateRace == Init /\ [][NextCreateRace]_vars

\* Concurrent update_scan_status and abort_scan calls on the scans of one
\* domain, and the clock.
NextTransitionRace ==
    \/ Tick
    \/ CreateSteps({1}, {"d1"}, Engines, {"u1"}, MaxScansFew)
    \/ UpdateSteps(Procs, 1..MaxScansFew, {RUNNING, COMPLETED, FAILED}, {None})
    \/ AbortSteps(Procs, 1..MaxScansFew, {"u1"})

SpecTransitionRace == Init /\ [][NextTransitionRace]_vars

\* The activity ledger and the progress read from it: the scans of one
\* domain, every step and status.
DetailsSteps(W, I) == \E p \in W, id \in I : get_scan_details(p, id)

ActivitySteps(I) ==
    \E id \in I, name \in StepNames, status \in ActivityStatus :
        append_activity(id, name, status)

NextProgress ==
    \/ CreateSteps({1}, {"d1"}, Engines, {"u1"}, MaxScansFew)
    \/ ActivitySteps(1..MaxScansFew)
    \/ DetailsSteps({1}, 1..(MaxScansFew + 1))

SpecProgress == Init /\ [][NextProgress]_vars

\* The pre-flight checks and the status methods, called by the workers W for
\* the domains D, the engines E and the scan ids I.
PreflightSteps(W, D, E, I) ==
    \/ \E p \in W, d \in D, e \in E : validate_scan_start(p, d, e)
    \/ \E p \in W, d \in D : domain_has_running_scan(p, d)
    \/ \E p \in W, id \in I : validate_scan_stop(p, id)
    \/ \E p \in W, id \in I : scan_status_methods(p, id)

\* The lifecycle of the scans of one domain, with the checks made in between.
NextPreflight ==
    \/ CreateSteps({1}, {"d1"}, Engines, {"u1"}, MaxScansFew)
    \/ UpdateSteps({1}, 1..MaxScansFew, StatusArgs \ {4}, {None})
    \/ AbortSteps({1}, 1..MaxScansFew, {"u1"})
    \/ PreflightSteps({1}, {"d1", "d9"}, EngineIds, 1..(MaxScansFew + 1))

SpecPreflight == Init /\ [][NextPreflight]_vars

\* test_payload of WebhookTestHelper.test_webhook
TestPayload ==
    Object(<< <<"test", Scalar("True")>>,
              <<"message", Scalar("This is a test webhook from reconPoint")>> >>)

\* The secrets a caller may pass: none, the empty string, a key.
SecretArgs == {None, Some(""), Some("k1")}

\* What an endpoint may do with a POST.
EveryResponse ==
    {Answers(200), Answers(201), Answers(202), Answers(204), Answers(404),
     Answers(500), Raises("RequestException"), Raises("Exception")}

\* send_webhook calls to the endpoints U with the events E, the payloads P
\* and the secrets S, the endpoints responding with R.
\* The threads W make the calls, at most cap deliveries in all.
SendSteps(W, U, E, P, S, R, cap) ==
    \/ \E w \in W, url \in U, event \in E, payload \in P, secret \in S :
          send_webhook_call(w, url, event, payload, secret, cap)
    \/ \E w \in W, response \in R : send_webhook_attempt(w, response)
    \/ \E w \in W : send_webhook_log(w)

\* Direct deliveries to one endpoint, every secret, every response.
NextSend ==
    SendSteps({1}, {"http://a"}, {TEST_EVENT}, {TestPayload}, SecretArgs,
              EveryResponse, MaxSends)

SpecSend == Init /\ [][NextSend]_vars

\* Deliveries of one thread to one endpoint, one after the other, more of them
\* than the delivery log keeps; the endpoint answers 200 or 204.
NextLogged ==
    SendSteps({1}, {"http://a"}, {TEST_EVENT}, {TestPayload}, {None},
              {Answers(200), Answers(204)}, MaxLogged)

SpecLogged == Init /\ [][NextLogged]_vars

\* Deliveries of two threads to one endpoint at the same time.
NextLogRace ==
    SendSteps(Senders, {"http://a"}, {TEST_EVENT}, {TestPayload}, {None},
              {Answers(200), Answers(500)}, MaxSends)

SpecLogRace == Init /\ [][NextLogRace]_vars

\* The payload of notify_scan_completed.
CompletedPayload ==
    Object(<< <<"scan_id", Scalar("1")>>, <<"domain", Scalar("d1")>> >>)

\* Subscriptions of the endpoints U to the event lists L, with the secrets S
\* and the flags A, and their removal from the events V, by the workers W.
SubscriptionSteps(W, U, L, S, A, V) ==
    \/ \E p \in W, url \in U, events \in L, secret \in S, active \in A :
          add_subscription_call(p, url, events, secret, active)
    \/ \E p \in W : add_subscription_get(p)
    \/ \E p \in W : add_subscription_set(p)
    \/ \E p \in W, url \in U, event \in V : remove_subscription_call(p, url, event)
    \/ \E p \in W : remove_subscription_get(p)
    \/ \E p \in W : remove_subscription_set(p)

\* Notifications of the events E with the payloads P, at most cap of them,
\* triggered and run by the threads W.
NotificationSteps(W, E, P, cap) ==
    \/ \E w \in W, event \in E, payload \in P, async_send \in BOOLEAN :
          trigger_webhook(w, event, payload, async_send, cap)
    \/ \E w \in W : send_webhook_notification(w)

\* The fan-out of one event to the subscribed endpoints, active or not, which
\* answer, fail or make requests.post raise.
NextFanout ==
    \/ SubscriptionSteps({1}, Urls, {<<SCAN_COMPLETED>>}, {None}, BOOLEAN,
                         {Some(SCAN_COMPLETED)})
    \/ NotificationSteps({1}, {SCAN_COMPLETED}, {CompletedPayload}, MaxTasks)
    \/ \E response \in {Answers(200), Answers(500), Raises("Exception")} :
          send_webhook_attempt(1, response)
    \/ send_webhook_log(1)

SpecFanout == Init /\ [][NextFanout]_vars

\* The notifications of one endpoint, subscribed with every secret.
NextSigned ==
    \/ SubscriptionSteps({1}, {"http://a"}, {<<SCAN_COMPLETED>>}, SecretArgs, BOOLEAN,
                         {Some(SCAN_COMPLETED)})
    \/ NotificationSteps({1}, {SCAN_COMPLETED}, {CompletedPayload}, MaxTasks)
    \/ \E response \in {Answers(200), Raises("RequestException")} :
          send_webhook_attempt(1, response)
    \/ send_webhook_log(1)

SpecSigned == Init /\ [][NextSigned]_vars

\* Subscriptions and removals made one after the other: two endpoints, a list
\* of two events, one of them none of the six of WebhookEvent, removals from
\* one event and from all.
NextRegistry ==
    SubscriptionSteps({1}, Urls, {<<SCAN_STARTED, TEST_EVENT>>}, {None, Some("k1")},
                      {TRUE}, {None, Some(SCAN_STARTED), Some(TEST_EVENT)})

SpecRegistry == Init /\ [][NextRegistry]_vars

\* Subscriptions to one event and removals from it, by workers that run at the
\* same time.
NextRegistryRace ==
    SubscriptionSteps(Procs, Urls, {<<SCAN_STARTED>>}, {None}, {TRUE},
                      {Some(SCAN_STARTED)})

SpecRegistryRace == Init /\ [][NextRegistryRace]_vars

\* The dicts that are signed: payloads and envelopes, some with the same
\* members in another order or with another value.
SignedPayloads ==
    {TestPayload, CompletedPayload,
     Object(<< <<"domain", Scalar("d1")>>, <<"scan_id", Scalar("1")>> >>),
     Object(<< <<"scan_id", Scalar("2")>>, <<"domain", Scalar("d1")>> >>),
     webhook_payload(SCAN_COMPLETED, CompletedPayload, 0),
     webhook_payload(SCAN_FAILED, CompletedPayload, 0)}

\* The texts a receiver may hold: every dict dumped with and without sort_keys.
ReceivedTexts ==
    {json_dumps(payload, sort_keys) : payload \in SignedPayloads, sort_keys \in BOOLEAN}

\* Signing and verifying.
NextSign ==
    \/ \E payload \in SignedPayloads, secret \in {"", "k1", "k2"} : sign(payload, secret)
    \/ \E text \in ReceivedTexts, whole \in BOOLEAN : verify(text, whole)

SpecSign == Init /\ [][NextSign]_vars

\* ------------------------------------------------------------------- claims
Terminal == {COMPLETED, FAILED, ABORTED}
ActiveScansOf(d) ==
    {i \in ScanIds : scans[i].domain = d /\ scans[i].scan_status \in {PENDING, RUNNING}}

\* The step in which worker p leaves the program point at.
Leaves(p, at) == pc[p] = at /\ pc'[p] # at

\* C1: after any sequence of create_scan, update_scan_status and abort_scan
\* calls every domain has at most one scan whose status is Pending or Running.
C1_AtMostOneActiveScan ==
    \A d \in Domains : Cardinality(ActiveScansOf(d)) <= 1

\* C2: create_scan calls for the same domain that run concurrently, the domain
\* having no Pending or Running scan when each of them starts and no
\* update_scan_status or abort_scan committing meanwhile, do not both create a
\* scan; each of them either creates the scan or is rejected with the
\* validation (conflict) error, and one of them has created the domain's scan.
ConcurrentCreates(p, q) ==
    /\ p # q
    /\ result[p].op = "create" /\ result[q].op = "create"
    /\ hist[p].target # NoTarget /\ hist[p].target = hist[q].target
    /\ q \in hist[p].overlap /\ p \in hist[q].overlap
    /\ hist[p].quiet /\ hist[q].quiet

C2_OneConcurrentCreateWins ==
    \A p, q \in Procs :
        ConcurrentCreates(p, q) =>
            /\ ~(result[p].outcome = "ok" /\ result[q].outcome = "ok")
            /\ result[p].outcome \in {"ok", "ValidationException"}
            /\ result[p].outcome = "ValidationException" =>
                  Cardinality(ActiveScansOf(hist[p].target)) = 1

C2_Witness ==
    \E p, q \in Procs :
        /\ ConcurrentCreates(p, q)
        /\ result[p].outcome = "ok"
        /\ result[q].outcome = "ValidationException"

\* C3: update_scan_status rejects, with an error and without changing the
\* scan, every change of status away from a terminal status.
C3_RejectsChangeOfTerminalStatus ==
    [][\A p \in Procs :
         (/\ Leaves(p, "update_save")
          /\ scans[call[p].scan_id].scan_status \in Terminal
          /\ call[p].status # scans[call[p].scan_id].scan_status)
         => (result'[p].outcome # "ok" /\ scans' = scans)]_vars

\* C4: in every reachable state a scan's stop date is set if and only if its
\* status is terminal.
C4_StopDateIffTerminal ==
    \A i \in ScanIds :
        scans[i].stop_scan_date # None <=> scans[i].scan_status \in Terminal

\* C5: once a scan's stop date has been set, no later call changes it.
C5_StopDateSetOnce ==
    [][\A i \in ScanIds :
         scans[i].stop_scan_date # None =>
            scans'[i].stop_scan_date = scans[i].stop_scan_date]_vars

\* C6: abort_scan called on a scan that is neither Pending nor Running raises
\* the validation error, requests no revocation and leaves the scan table (the
\* scan's status, stop date and aborted_by) unchanged.
C6_AbortOnlyFromActive ==
    [][\A p \in Procs :
         (/\ Leaves(p, "abort_save")
          /\ scans[call[p].scan_id].scan_status \notin {PENDING, RUNNING})
         => /\ result'[p].outcome = "ValidationException"
            /\ result'[p].requested = {}
            /\ scans' = scans]_vars

C6_Witness ==
    \E p \in Procs :
        /\ result[p].op = "abort"
        /\ result[p].outcome = "ValidationException"
        /\ scans[result[p].scan].scan_status \in Terminal
        /\ scans[result[p].scan].celery_ids # {}

\* C7: abort_scan on a Pending or Running scan requests the revocation of every
\* handle of the scan and, whichever of the requests fail, returns without
\* error, the scan Aborted, aborted_by the acting user and the stop date set.
C7_AbortCommitsWhateverRevokeDoes ==
    [][\A p \in Procs :
         (/\ Leaves(p, "abort_save")
          /\ scans[call[p].scan_id].scan_status \in {PENDING, RUNNING})
         => /\ result'[p].outcome = "ok"
            /\ result'[p].requested = scans[call[p].scan_id].celery_ids
            /\ scans'[call[p].scan_id].scan_status = ABORTED
            /\ scans'[call[p].scan_id].aborted_by = Some(call[p].user)
            /\ scans'[call[p].scan_id].stop_scan_date # None]_vars

C7_Witness ==
    \E p \in Procs :
        /\ result[p].op = "abort"
        /\ result[p].outcome = "ok"
        /\ result[p].failed # {}
        /\ result[p].failed # result[p].requested
        /\ scans[result[p].scan].scan_status = ABORTED
        /\ scans[result[p].scan].aborted_by = Some("u2")

\* C8: once abort_scan has set a scan to Aborted, a later update_scan_status
\* leaves its status Aborted.
C8_LateCompletionIgnored ==
    [][\A i \in ScanIds :
         (scans[i].scan_status = ABORTED /\ scans[i].aborted_by # None)
         => scans'[i].scan_status = ABORTED]_vars

\* C9: a create_scan for an existing domain and engine, called when every scan
\* of the domain is in a terminal status, passes the guard, and the call
\* returns a new scan of that domain in status Pending.
C9_TerminalScanReleasesTarget ==
    [][\A p \in Procs :
         /\ (/\ Leaves(p, "create_check")
             /\ call[p].domain_id \in Domains
             /\ call[p].scan_type_id \in Engines
             /\ \A i \in ScanIds :
                   scans[i].domain = call[p].domain_id =>
                      scans[i].scan_status \in Terminal)
            => pc'[p] = "create_insert"
         /\ Leaves(p, "create_insert")
            => /\ result'[p].outcome = "ok"
               /\ result'[p].scan = Len(scans) + 1
               /\ Len(scans') = Len(scans) + 1
               /\ scans'[Len(scans')].domain = call[p].domain_id
               /\ scans'[Len(scans')].scan_status = PENDING]_vars

C9_Witness ==
    \E p \in Procs :
        /\ result[p].op = "create" /\ result[p].outcome = "ok"
        /\ result[p].scan = 2
        /\ scans[2].scan_status = PENDING
        /\ scans[1].domain = scans[2].domain
        /\ scans[1].scan_status = ABORTED

\* C10: re-applying to a scan the terminal status it already has, through
\* update_scan_status, raises no error and changes nothing of the scan,
\* whatever error_message is passed.
C10_SameTerminalStatusIsNoOp ==
    [][\A p \in Procs :
         (/\ Leaves(p, "update_save")
          /\ scans[call[p].scan_id].scan_status \in Terminal
          /\ call[p].status = scans[call[p].scan_id].scan_status)
         => (result'[p].outcome = "ok" /\ scans' = scans)]_vars

\* ---------------------------------------------------------- claims: webhooks
\* The POSTs of a send_webhook trace, in order.
Posts(trace) == SelectSeq(trace, LAMBDA x : x.kind = "post")
Responses(trace) == [i \in DOMAIN Posts(trace) |-> Posts(trace)[i].response]

\* A send_webhook that thread w called directly is over.
SendOver(w) == dw[w].pc = "idle" /\ dw[w].task = "send_webhook"

\* A step of the loop of send_webhook in thread w: a POST and what follows
\* from it.
Attempt(w) == dw[w].pc = "post" /\ dw'[w] # dw[w]

\* The step in which thread w writes the delivery log.
Logs(w) == dw[w].pc = "log" /\ dw'[w] # dw[w]

\* The step in which the current send_webhook of thread w ends.
SendEnds(w) ==
    /\ dw[w].pc \in {"post", "log"}
    /\ dw'[w].pc = "idle" \/ dw'[w].i # dw[w].i

\* C11: an endpoint that answers every request with HTTP 500 has received,
\* when one send_webhook call is over, exactly max_retries + 1 POSTs.
C11_FourAttemptsThenGivesUp ==
    \A w \in Senders :
        (SendOver(w) /\ \A i \in DOMAIN Responses(sent[w]) :
                            Responses(sent[w])[i] = Answers(500))
            => Len(Posts(sent[w])) = max_retries + 1

\* C12: within one send_webhook call every POST after the first directly
\* follows a sleep of retry_delay * k seconds, k being the number of the POSTs
\* made before it, whether the attempt before it failed with a transport
\* error or with a status that is no success.
C12_BackoffBeforeEveryRetry ==
    \A w \in Senders : \A i \in DOMAIN sent[w] :
        (sent[w][i].kind = "post" /\ i > 1) =>
            /\ sent[w][i - 1].kind = "sleep"
            /\ sent[w][i - 1].seconds
                  = retry_delay * Len(Posts(SubSeq(sent[w], 1, i - 1)))

\* C13: the attempt of send_webhook that is answered 200, 201, 202 or 204 is
\* the last of the call, which logs the delivery and returns True; after an
\* attempt that is answered with any other status or fails with a transport
\* error the call makes another attempt as long as it has made fewer than its
\* max_retries attempts, and logs the failure and returns False otherwise.
C13_StopsAtFirstSuccess ==
    [][\A w \in Senders :
         /\ Attempt(w) =>
              LET response == Posts(sent'[w])[Len(Posts(sent'[w]))].response IN
              IF response.raises = "" /\ response.status_code \in {200, 201, 202, 204}
              THEN /\ dw'[w].pc = "log" /\ dw'[w].log_entry[1].success
                   /\ sent'[w][Len(sent'[w])].kind = "post"
              ELSE IF response.raises \in {"", "RequestException"}
              THEN IF Len(Posts(sent'[w])) < max_retries
                   THEN /\ dw'[w].pc = "post" /\ dw'[w].i = dw[w].i
                        /\ dw'[w].attempt = dw[w].attempt + 1
                   ELSE dw'[w].pc = "log" /\ ~dw'[w].log_entry[1].success
              ELSE TRUE
         /\ Logs(w) =>
              /\ SendEnds(w)
              /\ sent'[w] = sent[w]
              /\ dw'[w].returned = IF dw[w].log_entry[1].success THEN "True"
                                   ELSE "False"]_vars

C13_Witness ==
    \E w \in Senders :
        /\ SendOver(w)
        /\ dw[w].returned = "True"
        /\ Responses(sent[w])
              = <<Answers(500), Raises("RequestException"), Answers(201)>>

\* C14: a send_webhook call that returns has appended, in its last step,
\* exactly one record to the delivery log of its endpoint and event, and no
\* step before has changed the log; the record's success flag is the value
\* returned, with the status the endpoint answered when the call succeeded,
\* and without one when the call gave up, its max_retries attempts made.
C14_OneDeliveryRecordPerCall ==
    [][\A w \in Senders :
         /\ Attempt(w) => delivery_log' = delivery_log
         /\ Logs(w) =>
              LET key == <<dw[w].url, dw[w].event>>
                  before == delivery_log[key]
                  after == delivery_log'[key]
                  last == after[Len(after)]
              IN
              /\ SendEnds(w) /\ dw'[w].returned \in {"True", "False"}
              /\ \A k \in DOMAIN delivery_log :
                    k # key => delivery_log'[k] = delivery_log[k]
              /\ Len(before) < RecentLogs =>
                    (Len(after) = Len(before) + 1
                     /\ SubSeq(after, 1, Len(before)) = before)
              /\ last.url = dw[w].url /\ last.event = dw[w].event
              /\ last.success = (dw'[w].returned = "True")
              /\ sent[w][Len(sent[w])].kind = "post"
              /\ IF last.success
                 THEN last.status_code
                         = Some(sent[w][Len(sent[w])].response.status_code)
                 ELSE last.status_code = None /\ Len(Posts(sent[w])) = max_retries]_vars

C14_Witness ==
    \E w \in Senders :
        /\ SendOver(w)
        /\ dw[w].returned = "False"
        /\ \E k \in DOMAIN delivery_log :
              /\ Len(delivery_log[k]) = 2
              /\ delivery_log[k][1].success
              /\ delivery_log[k][1].status_code = Some(202)
              /\ ~delivery_log[k][2].success
              /\ delivery_log[k][2].status_code = None

\* Thread w runs, or has run, a send_webhook_notification task.
InNotification(w) == dw[w].task = "send_webhook_notification"

\* C15: every active subscription in the list a send_webhook_notification read
\* has been POSTed to at least once when the task is over, and as soon as the
\* task has gone past it, whether the deliveries to the others returned True,
\* gave up or raised.
C15_EveryActiveSubscriptionIsAttempted ==
    \A w \in Senders :
        InNotification(w) =>
            \A j \in DOMAIN dw[w].subs :
                (dw[w].subs[j].active /\ (dw[w].pc = "idle" \/ j < dw[w].i))
                    => j \in dw[w].attempted

C15_Witness ==
    \E w \in Senders :
        /\ InNotification(w)
        /\ dw[w].pc = "idle"
        /\ Len(dw[w].subs) = 2
        /\ dw[w].subs[1].active /\ dw[w].subs[2].active
        /\ delivery_log[<<dw[w].subs[1].url, dw[w].event>>] = <<>>
        /\ dw[w].attempted = {1, 2}
        /\ dw[w].returned = "True"

\* C18: the request of every POST that send_webhook_notification makes for a
\* subscription carries X-Webhook-Signature if and only if the subscription
\* has a secret (one that is neither None nor the empty string).
C18_SignatureIffSecret ==
    [][\A w \in Senders :
         (Attempt(w) /\ InNotification(w)) =>
            LET request == Posts(sent'[w])[Len(Posts(sent'[w]))]
                secret == dw[w].subs[dw[w].i].secret
            IN /\ request.url = dw[w].subs[dw[w].i].url
               /\ request.signature # None <=> (secret # None /\ secret # Some(""))]_vars

C18_Witness ==
    \E w \in Senders :
        /\ InNotification(w)
        /\ dw[w].pc = "post"
        /\ dw[w].subs[dw[w].i].secret = Some("k1")
        /\ Len(Posts(sent[w])) = 2
        /\ \A i \in DOMAIN Posts(sent[w]) : Posts(sent[w])[i].signature # None

\* C16: the X-Webhook-Signature of every POST of send_webhook verifies, under
\* the secret of the call, against the text of the body of that POST.
C16_SignatureValidatesAgainstBody ==
    \A w \in Senders : \A i \in DOMAIN Posts(sent[w]) :
        Posts(sent[w])[i].signature # None =>
            verify_signature(Posts(sent[w])[i].body.utf8,
                             Posts(sent[w])[i].signature[1], dw[w].secret[1])

\* C17: verify_signature accepts the signature _generate_signature made for a
\* payload and a secret when it is given the text that was signed (the
\* payload dumped with sorted keys) and the secret, and rejects it when it is
\* given any other text.
C17_SignVerifyRoundTrip ==
    sg.stage = "verified" =>
        (sg.verdict <=> sg.text = json_dumps(sg.payload, TRUE))

C17_Witness ==
    /\ sg.stage = "verified"
    /\ sg.verdict
    /\ sg.signature.prefix = "sha256="
    /\ sg.payload = webhook_payload(SCAN_COMPLETED, CompletedPayload, 0)

\* A send_webhook_notification task for one of events is queued in the step.
Enqueues(events) ==
    /\ Len(task_queue') = Len(task_queue) + 1
    /\ task_queue'[Len(task_queue')].event \in events

\* C19: the step in which create_scan commits the new scan queues the
\* scan.started notification; the step in which update_scan_status commits
\* Completed or Failed queues scan.completed or scan.failed; the step in which
\* abort_scan commits Aborted queues scan.failed or scan.aborted.
C19_EveryTransitionEnqueuesItsEvent ==
    [][\A p \in Procs :
         /\ Leaves(p, "create_insert") => Enqueues({SCAN_STARTED})
         /\ (Leaves(p, "update_save") /\ call[p].status = COMPLETED)
               => Enqueues({SCAN_COMPLETED})
         /\ (Leaves(p, "update_save") /\ call[p].status = FAILED)
               => Enqueues({SCAN_FAILED})
         /\ (Leaves(p, "abort_save") /\ result'[p].outcome = "ok")
               => Enqueues({SCAN_FAILED, "scan.aborted"})]_vars

\* ---------------------------------------------------------- claims: progress
\* The step names of the scan id that have a Completed activity.
CompletedSteps(id) ==
    {activities[i].name : i \in {j \in DOMAIN activities :
        activities[j].scan = id /\ activities[j].status = ActivityCompleted}}

\* C20: the completed_tasks that get_scan_details returns for a scan is the
\* number of the distinct step names that have a Completed activity of the
\* scan.
C20_CompletedCountsDistinctSteps ==
    [][\A p \in Procs :
         (pc[p] = "idle" /\ result'[p] # result[p] /\ result'[p].op = "details"
          /\ result'[p].outcome = "ok")
         => result'[p].progress.completed_tasks
               = Cardinality(CompletedSteps(result'[p].scan))]_vars

\* C21: no step, whatever activity it appends, lowers the completed count of
\* a scan that get_scan_details reports.
C21_CompletedNeverDecreases ==
    [][\A id \in ScanIds : completed_tasks(id)' >= completed_tasks(id)]_vars

C21_Witness ==
    \E p \in Procs :
        /\ result[p].op = "details" /\ result[p].outcome = "ok"
        /\ result[p].progress.completed_tasks = 1
        /\ completed_tasks(result[p].scan) = 2
        /\ activities[Len(activities)].status # ActivityCompleted
        /\ activities[Len(activities)].name = activities[1].name
        /\ activities[1].status = ActivityCompleted

\* C30: in every reachable state the error_message of every scan is null or
\* at most 300 characters long.
C30_ErrorMessageBounded ==
    \A i \in ScanIds :
        scans[i].error_message = None \/ scans[i].error_message[1].len <= ErrorMessageLimit

C30_Witness ==
    \E i \in ScanIds :
        /\ scans[i].error_message # None
        /\ scans[i].error_message[1].len = ErrorMessageLimit

\* ------------------------------------------------------ claims: concurrency
\* Worker p commits a write of update_scan_status or abort_scan in the step.
Commits(p) == Leaves(p, "update_save") \/ Leaves(p, "abort_save")

\* The call of p is serialized with the other calls on its scan: the row it
\* read is the row as the last commit left it, and no other call is between
\* its read and its write of the same row.
SerializedCommit(p) ==
    /\ call[p].scan = Some(scans[call[p].scan_id])
    /\ \A q \in Procs \ {p} :
          ~(pc[q] \in {"update_save", "abort_save"} /\ call[q].scan_id = call[p].scan_id)

\* C27: update_scan_status and abort_scan calls on one scan are serialized,
\* each reading what the call before it wrote; of the calls that move a Running
\* scan to a terminal status, the one that commits first sets the stop date
\* and a call that commits on the terminal scan then leaves the stop date.
C27_TransitionsSerializedStopDateOnce ==
    [][\A p \in Procs :
         Commits(p) =>
            LET id == call[p].scan_id IN
            /\ SerializedCommit(p)
            /\ (scans[id].scan_status = RUNNING /\ scans'[id].scan_status \in Terminal)
                  => scans'[id].stop_scan_date = Some(now)
            /\ (scans[id].scan_status \in Terminal /\ scans'[id].scan_status \in Terminal)
                  => scans'[id].stop_scan_date = scans[id].stop_scan_date]_vars

\* The serialization alone.
TransitionsSerialized == [][\A p \in Procs : Commits(p) => SerializedCommit(p)]_vars


\* ------------------------------------------------------ claims: delivery log
\* The last RecentLogs records of logs, in their order.
MostRecent(logs, kept) ==
    /\ Len(kept) = (IF Len(logs) <= RecentLogs THEN Len(logs) ELSE RecentLogs)
    /\ \A i \in DOMAIN kept : kept[i] = logs[Len(logs) - Len(kept) + i]

\* C29: deliveries made one after the other leave in the delivery log of each
\* endpoint and event at most 10 records, each delivery adding its record at
\* the end and dropping the oldest record when there were 10 already.
C29_LogKeepsTheMostRecent ==
    [][\A w \in Senders :
         Logs(w) =>
            LET key == <<dw[w].url, dw[w].event>> IN
            /\ MostRecent(Append(delivery_log[key], dw[w].log_entry[1]),
                          delivery_log'[key])
            /\ \A k \in DOMAIN delivery_log : Len(delivery_log'[k]) <= RecentLogs]_vars

C29_Witness ==
    \E w \in Senders :
        LET log == delivery_log[<<dw[w].url, dw[w].event>>] IN
        /\ SendOver(w)
        /\ Len(dw[w].recent_logs) = RecentLogs
        /\ Len(log) = RecentLogs
        /\ dw[w].recent_logs[1].status_code = Some(204)
        /\ log[1].status_code = Some(200)
        /\ log[RecentLogs] = dw[w].log_entry[1]
        /\ SubSeq(log, 1, RecentLogs - 1) = SubSeq(dw[w].recent_logs, 2, RecentLogs)

\* C28: a delivery that writes its record while another delivery to the same
\* endpoint and event is under way keeps every record of the log: below the
\* 10-record bound the log after the write is the log before it and the new
\* record.
C28_ConcurrentRecordsAllKept ==
    [][\A w \in Senders :
         Logs(w) =>
            LET key == <<dw[w].url, dw[w].event>> IN
            Len(delivery_log[key]) < RecentLogs =>
               delivery_log'[key] = Append(delivery_log[key], dw[w].log_entry[1])]_vars


\* --------------------------------------------------- claims: subscriptions
\* The entries of the list subs that are not of the url.
Others(subs, url) == SelectSeq(subs, LAMBDA sub : sub.url # url)

\* C22: whatever add_subscription and remove_subscription calls were made, the
\* subscription list of each event holds at most one entry per url.
C22_OneEntryPerUrl ==
    \A e \in CacheEvents :
        \A i, j \in DOMAIN subscriptions[e] :
            subscriptions[e][i].url = subscriptions[e][j].url => i = j

C22_Witness ==
    \E p \in Procs :
        /\ result[p].op = "add_subscription"
        /\ result[p].subscription[1].secret = Some("k1")
        /\ \E i \in DOMAIN subscriptions[SCAN_STARTED] :
              /\ subscriptions[SCAN_STARTED][i].url = result[p].subscription[1].url
              /\ subscriptions[SCAN_STARTED][i].secret = None
        /\ Len(subscriptions[SCAN_STARTED]) = 2

\* C23: when remove_subscription(url) with no event returns, no event has a
\* subscription of url.
C23_RemovedFromAllEvents ==
    [][\A p \in Procs :
         (/\ Leaves(p, "remove_set")
          /\ pc'[p] = "idle"
          /\ call[p].event \in {None, Some("")})
         => \A e \in CacheEvents : ~AlreadySubscribed(subscriptions'[e], call[p].url)]_vars

\* C24: remove_subscription(url, event) with an event named writes the list of
\* that event once and no other list, and then returns; what it writes is the
\* list without the entries of url, the entries of the other urls as they
\* were.
C24_RemovesFromNamedEventOnly ==
    [][\A p \in Procs :
         /\ (Leaves(p, "remove_get") /\ call[p].event \notin {None, Some("")})
               => subscriptions' = subscriptions
         /\ (Leaves(p, "remove_set") /\ call[p].event \notin {None, Some("")})
               => LET e == call[p].event[1] IN
                  /\ pc'[p] = "idle"
                  /\ \A e2 \in CacheEvents \ {e} : subscriptions'[e2] = subscriptions[e2]
                  /\ Others(subscriptions'[e], call[p].url)
                        = Others(subscriptions[e], call[p].url)
                  /\ subscriptions'[e] = Others(subscriptions'[e], call[p].url)]_vars

C24_Witness ==
    \E p \in Procs :
        /\ result[p].op = "remove_subscription"
        /\ AlreadySubscribed(subscriptions[SCAN_STARTED], "http://a")
        /\ AlreadySubscribed(subscriptions[SCAN_STARTED], "http://b")
        /\ ~AlreadySubscribed(subscriptions[TEST_EVENT], "http://a")
        /\ AlreadySubscribed(subscriptions[TEST_EVENT], "http://b")


\* C25 as stated: get_subscriptions(event) returns only subscriptions whose
\* active flag is true.
C25_ListsOnlyActive ==
    \A e \in CacheEvents :
        \A i \in DOMAIN get_subscriptions(e) : get_subscriptions(e)[i].active

\* C25, amended: get_subscriptions(event) returns every subscription of the
\* event, and send_webhook_notification delivers to those of them whose
\* active flag is true only: the subscription it is delivering to and every
\* subscription it has POSTed to are active ones of the list it read.
C25_DeliversToActiveOnly ==
    \A w \in Senders :
        InNotification(w) =>
            /\ \A j \in dw[w].attempted : j \in DOMAIN dw[w].subs /\ dw[w].subs[j].active
            /\ dw[w].pc # "idle" =>
                  /\ dw[w].i \in DOMAIN dw[w].subs
                  /\ dw[w].subs[dw[w].i].active
                  /\ dw[w].url = dw[w].subs[dw[w].i].url

C25_Witness ==
    \E w \in Senders :
        /\ InNotification(w)
        /\ dw[w].pc = "idle"
        /\ Len(dw[w].subs) = 2
        /\ ~dw[w].subs[1].active
        /\ dw[w].subs[2].active
        /\ dw[w].attempted = {2}
        /\ Len(Posts(sent[w])) = 1
        /\ Posts(sent[w])[1].url = dw[w].subs[2].url
        /\ delivery_log[<<dw[w].subs[1].url, dw[w].event>>] = <<>>


\* C26: the step of a trigger_webhook with async_send queues one
\* send_webhook_notification task and does nothing else, no POST, no sleep and
\* no write of the delivery log; the notifications triggered with async_send
\* are run by celery workers, never by the thread that called trigger_webhook.
C26_AsyncTriggerOnlyEnqueues ==
    [][/\ Len(task_queue') > Len(task_queue) =>
             /\ task_queue' = Append(task_queue, task_queue'[Len(task_queue')])
             /\ dw' = dw /\ sent' = sent /\ delivery_log' = delivery_log
       /\ \A w \in Senders :
             (dw'[w] # dw[w] /\ dw'[w].async_send) => dw'[w].context = "celery"
       /\ \A w \in Senders :
             (dw'[w] # dw[w] /\ dw[w].pc = "idle" /\ dw'[w].context = "caller"
              /\ dw'[w].task = "send_webhook_notification")
             => task_queue' = task_queue /\ ~dw'[w].async_send]_vars

C26_Witness ==
    \E w \in Senders :
        /\ InNotification(w)
        /\ dw[w].async_send
        /\ dw[w].context = "celery"
        /\ dw[w].pc = "post"
        /\ Len(Posts(sent[w])) = 2
        /\ sent[w][Len(sent[w])].kind = "sleep"


\* C38: the write of an add_subscription or a remove_subscription call keeps
\* what the calls for the other urls have done to the list of the event,
\* however the calls interleave: the entries of the other urls are after the
\* write what they were before it.
C38_ConcurrentCallsBothTakeEffect ==
    [][\A p \in Procs :
         (Leaves(p, "add_set") \/ Leaves(p, "remove_set")) =>
            LET e == call[p].events[call[p].k] IN
            Others(subscriptions'[e], call[p].url)
               = Others(subscriptions[e], call[p].url)]_vars


\* C39: when add_subscription returns, the entry of the url in the list of
\* each of the events is the subscription the call returns.
C39_StoredIsReturned ==
    [][\A p \in Procs :
         ((Leaves(p, "add_get") \/ Leaves(p, "add_set")) /\ pc'[p] = "idle") =>
            \A k \in DOMAIN call[p].events :
               \A i \in DOMAIN subscriptions'[call[p].events[k]] :
                  subscriptions'[call[p].events[k]][i].url = call[p].url =>
                     Some(subscriptions'[call[p].events[k]][i])
                        = result'[p].subscription]_vars


\* ------------------------------------------------------ claims: scan records
\* C31: in every reachable state a scan whose set of execution handles
\* (celery_ids) is empty is Pending, or has left Pending without having run;
\* in particular no Running and no Completed scan has an empty set.
C31_HandlesEmptyOnlyWhilePending ==
    \A i \in ScanIds :
        scans[i].scan_status \in {RUNNING, COMPLETED} => scans[i].celery_ids # {}


\* C34: a create_scan call that is rejected, for a conflict on the domain, an
\* unknown domain or an unknown engine, is rejected before it has written: the
\* step that raises and every step of the call before it leave the scans and
\* the last-scan date of every domain as they were, and a call that is
\* rejected never reaches the insert.
C34_RejectedCreateChangesNothing ==
    [][\A p \in Procs :
         /\ (pc[p] = "idle" /\ pc'[p] = "create_check")
               => (scans' = scans /\ domain_start_scan_date' = domain_start_scan_date)
         /\ Leaves(p, "create_check")
               => /\ scans' = scans
                  /\ domain_start_scan_date' = domain_start_scan_date
                  /\ pc'[p] = "idle" =>
                        result'[p].outcome \in {"ValidationException",
                                                "ResourceNotFoundException"}
         /\ Leaves(p, "create_insert") => result'[p].outcome = "ok"
         /\ (result'[p] # result[p] /\ result'[p].op = "create"
             /\ result'[p].outcome # "ok")
               => (scans' = scans /\ domain_start_scan_date' = domain_start_scan_date)]_vars

C34_Witness ==
    \E p \in Procs :
        /\ result[p].op = "create"
        /\ result[p].outcome = "ValidationException"
        /\ Len(scans) = 1
        /\ scans[1].scan_status = PENDING
        /\ \A d \in Domains \ {scans[1].domain} : domain_start_scan_date[d] = None


\* C35: in every reachable state a scan's aborted_by is set if and only if
\* its status is Aborted.
C35_AbortedByIffAborted ==
    \A i \in ScanIds :
        scans[i].aborted_by # None <=> scans[i].scan_status = ABORTED


\* C36: the completed count that get_scan_details reports for a scan never
\* exceeds the number of the scan's declared tasks, and the percentage it
\* reports (in hundredths of a percent) lies between 0 and 100.
C36_CompletedWithinTotal ==
    \A p \in Procs :
        (result[p].op = "details" /\ result[p].outcome = "ok") =>
            /\ result[p].progress.completed_tasks <= result[p].progress.total_tasks
            /\ result[p].progress.percentage \in 0..10000


\* ---------------------------------------------------- claims: pre-flight
\* create_scan for the domain d would be rejected with the conflict error.
Conflict(d) == ActiveScansOf(d) # {}

\* C32: for an existing domain and engine validate_scan_start returns
\* (False, message) exactly when the domain has a Pending or Running scan, and
\* has_running_scan returns true exactly then: exactly when create_scan for
\* the domain would be rejected with the conflict error.
C32_PreflightAgreesWithGuard ==
    [][\A p \in Procs :
         /\ (result'[p] # result[p] /\ result'[p].op = "validate_scan_start"
             /\ call'[p].domain_id \in Domains /\ call'[p].scan_type_id \in Engines)
               => /\ result'[p].is_valid <=> ~Conflict(call'[p].domain_id)
                  /\ result'[p].is_valid <=> ~running_scans(call'[p].domain_id)
                  /\ result'[p].is_valid <=> result'[p].error = None
         /\ (result'[p] # result[p] /\ result'[p].op = "has_running_scan")
               => /\ result'[p].returns <=> Conflict(call'[p].domain_id)
                  /\ result'[p].returns <=> running_scans(call'[p].domain_id)]_vars

\* C33: for every status the lifecycle stores, is_running is true iff the
\* scan is Pending or Running, is_completed iff it is Completed, is_failed iff
\* Failed and is_aborted iff Aborted.
C33_StatusMethodsMatchEncoding ==
    [][\A p \in Procs :
         (result'[p] # result[p] /\ result'[p].op = "status_methods") =>
            LET status == scans[result'[p].scan].scan_status IN
            /\ result'[p].is_running <=> status \in {PENDING, RUNNING}
            /\ result'[p].is_completed <=> status = COMPLETED
            /\ result'[p].is_failed <=> status = FAILED
            /\ result'[p].is_aborted <=> status = ABORTED]_vars

\* C37: validate_scan_stop returns (True, None) for a scan exactly when
\* abort_scan on the scan would succeed, and (False, message) exactly when
\* abort_scan would raise the validation error.
C37_StopCheckAgreesWithAbort ==
    [][\A p \in Procs :
         (result'[p] # result[p] /\ result'[p].op = "validate_scan_stop"
          /\ call'[p].scan_id \in ScanIds)
            => /\ result'[p].is_valid <=> ~CannotAbort(scans[call'[p].scan_id].scan_status)
               /\ result'[p].is_valid <=> result'[p].error = None]_vars

====
